---- MODULE Spec2Model ----
(***************************************************************************)
(* Race to the Tank: the data builder (scripts/build-data.mjs).            *)
(*                                                                         *)
(* Spec      the publisher/orchestrator: main, loadLivePayload,            *)
(*           loadFromEspn, loadFromNba, fetchJson, readCachedPayload,      *)
(*           writePayload, over a sequence of runs on one output file.     *)
(* SpecRows  one call of buildRows over a list of canonical games.         *)
(* SpecSched one call of buildUpcomingSchedule or buildTodaySchedule at an *)
(*           instant near a change of the Eastern UTC offset.              *)
(* SpecStand one call of normalizeStandings or normalizeEspnStandings over *)
(*           a list of raw candidates.                                     *)
(* SpecLive  one run of the publisher, with every await settling.          *)
(* SpecCollect, SpecCollectLive  one call of deepCollect on a JSON value.  *)
(* SpecFetch one call of fetchJson, attempt by attempt.                    *)
(***************************************************************************)
EXTENDS Integers, Sequences, FiniteSets, TLC

\* ------------------------------------------------------------------ bounds

\* Number of runs of the builder against the same output file.
MaxRuns == 2
\* Number of per-team ESPN schedule feeds of one provider attempt (the code
\* fetches one per tracked team, BOTTOM_TEAM_COUNT of them).
TrackedFeeds == 2

\* --------------------------------------------------------------- constants

FETCH_ATTEMPTS == 4
ESPN_FETCH_ATTEMPTS == 2

VARIABLES
    \* ---- Spec: the run pipeline
    disk,            \* content of OUTPUT_PATH
    pc,              \* the await main() is suspended at
    feeds,           \* one fetchJson call per feed: state, attempt, result
    error,           \* the error caught in main
    payload,         \* the payload main is about to write
    exitCode,        \* process.exitCode
    now,             \* the clock: one instant per run
    run,             \* runs started so far
    failed,          \* providers whose loader threw in this run
    loaderError,     \* the error the last provider's loader threw
    thrown,          \* the error main() rejected with
    obtained,        \* provider whose loader returned a payload in this run
    wrote,           \* what this run's completed writes published
    reads,           \* readCachedPayload calls of this run
    writes,          \* writePayload calls of this run
    diskAtStart,     \* the file as the run found it
    lastLive,        \* the payload of the most recent run that obtained live data
    \* ---- SpecRows: one call of buildRows
    bottomTeams,     \* the tracked teams, in rank order
    rowsNow,         \* const now = new Date()
    counts,          \* the Map of Maps of remaining games
    game,            \* the game the loop handled last
    processed,       \* games handled so far
    remaining,       \* per team, the games handled so far that are not final, not
                     \* in the past, and against another tracked team
    rowsResult,      \* the rows returned
    rpc,             \* "loop", "done"; "off" outside SpecRows
    \* ---- SpecSched: one call of a schedule builder
    today,           \* new Date(), in hours since 2026-01-01T00:00Z
    builder,         \* which of the two builders runs
    dayKeys,         \* the Eastern dates asked for
    dayGames,        \* per date, the games listed so far
    shandled,        \* games handled so far
    scheduleGames,   \* the games handled so far, in the order of the list
    schedule,        \* the value returned
    spc,             \* "start", "loop", "done"; "off" outside SpecSched
    \* ---- SpecStand: one call of a standings normalizer
    normalizer,      \* which of the two normalizers runs
    byId,            \* the Map of retained records, in insertion order
    taken,           \* candidates handled so far
    seenGames,       \* per team id, the games-played of the candidates that
                     \* yielded a record so far
    standings,       \* the list returned
    npc,             \* "loop", "done"; "off" outside SpecStand
    \* ---- SpecCollect: one call of deepCollect
    graph,           \* per object of the document, its values in order
    matching,        \* the objects the predicate accepts
    out,             \* the list collected
    seen,            \* the WeakSet of objects met
    stack,           \* the calls in progress: object, depth, next value
    dpc,             \* "start", "walk", "done"; "off" outside SpecCollect
    \* ---- SpecFetch: one call of fetchJson
    attempts,        \* the attempts parameter
    attempt,         \* the loop variable
    requests,        \* fetch() calls made so far
    lastError,       \* let lastError
    waits,           \* the sleep(waitMs) calls made so far, in ms
    errors,          \* the errors of the failed attempts so far
    result,          \* "json" once returned, the error once thrown
    fpc              \* "request", "sleep", "returned", "thrown"; "off" outside SpecFetch

pvars == <<disk, pc, feeds, error, payload, exitCode, now, run, failed, loaderError,
           thrown, obtained, wrote, reads, writes, diskAtStart, lastLive>>

rvars == <<bottomTeams, rowsNow, counts, game, processed, remaining, rowsResult, rpc>>

svars == <<today, builder, dayKeys, dayGames, shandled, scheduleGames, schedule, spc>>

nvars == <<normalizer, byId, taken, seenGames, standings, npc>>

cvars == <<graph, matching, out, seen, stack, dpc>>

fvars == <<attempts, attempt, requests, lastError, waits, errors, result, fpc>>

\* the variables of the other specifications, which Spec leaves alone
aux == <<rvars, svars, nvars, cvars, fvars>>

vars == <<pvars, rvars, svars, nvars, cvars, fvars>>

\* ------------------------------------------------------------ values

Null == "null"          \* JSON null
Absent == "absent"      \* a key the object does not have
NoInstant == -1         \* no instant (null / absent generatedAt)

Providers == <<"espn", "nba">>

Feed(p, k, i) == [prov |-> p, kind |-> k, idx |-> i]
EspnStandingsFeed == Feed("espn", "standings", 0)
EspnScheduleFeeds == {Feed("espn", "schedule", i) : i \in 1..TrackedFeeds}
NbaStandingsFeed == Feed("nba", "standings", 0)
NbaScheduleFeed == Feed("nba", "schedule", 0)
NbaFeeds == {NbaStandingsFeed, NbaScheduleFeed}
Feeds == {EspnStandingsFeed} \cup EspnScheduleFeeds \cup NbaFeeds

\* fetchJson(url, attempts = FETCH_ATTEMPTS); the ESPN loaders pass ESPN_FETCH_ATTEMPTS
Attempts(f) == IF f.prov = "espn" THEN ESPN_FETCH_ATTEMPTS ELSE FETCH_ATTEMPTS

\* ------------------------------------------------------------ errors

\* An error is its code (cause.code or code) and the words of its message.
ErrorOf(kind) ==
    CASE kind = "http" ->       \* new Error(`Fetch failed: ${url} -> ${res.status}`)
           [code |-> "", message |-> <<"Fetch", "failed", ":", "URL", "->", "STATUS">>]
      [] kind = "reset" ->      \* TypeError: fetch failed, cause.code ECONNRESET
           [code |-> "ECONNRESET", message |-> <<"fetch", "failed">>]
      [] kind = "json" ->       \* res.json(): SyntaxError
           [code |-> "", message |-> <<"Unexpected", "token", "in", "JSON">>]
      [] kind = "shape_espn" -> \* Unable to resolve N teams from ESPN standings.
           [code |-> "", message |-> <<"Unable", "to", "resolve", "teams", "from", "ESPN", "standings">>]
      [] kind = "shape_nba" ->  \* Unable to resolve N teams from NBA standings feed.
           [code |-> "", message |-> <<"Unable", "to", "resolve", "teams", "from", "NBA", "standings", "feed">>]
      [] kind = "abort" ->      \* controller.abort(): DOMException AbortError, code 20
           [code |-> "20", message |-> <<"This", "operation", "was", "aborted">>]
      [] kind = "write" ->      \* fs.mkdir / fs.writeFile rejection
           [code |-> "ENOSPC", message |-> <<"ENOSPC", ":", "no", "space", "left", "on", "device", "write">>]

FetchErrorKinds == {"http", "reset", "json"}

\* String.prototype.toLowerCase, word by word
LowerWord(w) ==
    CASE w = "Fetch" -> "fetch"
      [] w = "This" -> "this"
      [] w = "Unexpected" -> "unexpected"
      [] w = "Unable" -> "unable"
      [] w = "URL" -> "url"
      [] w = "STATUS" -> "status"
      [] w = "JSON" -> "json"
      [] w = "ESPN" -> "espn"
      [] w = "NBA" -> "nba"
      [] w = "ENOSPC" -> "enospc"
      [] OTHER -> w

ToLowerCase(msg) == [i \in 1..Len(msg) |-> LowerWord(msg[i])]

\* String.prototype.includes on the words of a message
Includes(msg, pat) ==
    \E i \in 1..Len(msg) :
        /\ i + Len(pat) - 1 <= Len(msg)
        /\ SubSeq(msg, i, i + Len(pat) - 1) = pat

classifyFetchError(e) ==
    LET code == e.code
        message == ToLowerCase(e.message)
    IN [code |-> code,
        isNetworkLike |->
            \/ code = "ETIMEDOUT"
            \/ code = "ECONNRESET"
            \/ code = "ECONNREFUSED"
            \/ code = "EAI_AGAIN"
            \/ code = "ENOTFOUND"
            \/ Includes(message, <<"fetch", "failed">>)
            \/ Includes(message, <<"network">>)
            \/ Includes(message, <<"timed", "out">>)
            \/ Includes(message, <<"aborted">>)]

\* ------------------------------------------------------------ file content

Missing == [kind |-> "missing"]     \* no file at OUTPUT_PATH
Garbage == [kind |-> "garbage"]     \* a file that is not valid JSON
NoRows == [kind |-> "norows"]       \* valid JSON without a rows array

NoStatus ==
    [source |-> Absent, provider |-> Absent, attemptedAt |-> NoInstant,
     lastLiveGeneratedAt |-> NoInstant, reasonType |-> Absent, reasonCode |-> Absent]

\* What a feed returned: which feed, fetched in which run, and for a
\* standings feed whether it resolves enough teams.
Doc(f, d, t) == [feed |-> f, at |-> t, teams |-> d]

buildLivePayload(rows, todaySchedule, provider, dataSources, t) ==
    [kind |-> "payload",
     generatedAt |-> t,
     dataSources |-> dataSources,
     refreshStatus |-> [NoStatus EXCEPT !.source = "live",
                                        !.provider = provider,
                                        !.attemptedAt = t],
     todaySchedule |-> todaySchedule,
     rows |-> rows]

\* a || null
OrNull(x) == IF x = Absent \/ x = "" THEN Null ELSE x

\* readFile throws (no file), JSON.parse throws (garbage), or the parsed
\* value has no rows array: null. Otherwise the parsed value.
NullPayload == [kind |-> "null"]

readCachedPayload(file) ==
    IF file.kind = "payload" THEN file ELSE NullPayload

\* FallbackPayload, but stamping the republished snapshot as generated now
FallbackPayloadRestamped(cached, e, t) ==
    [cached EXCEPT !.generatedAt = t,
                   !.refreshStatus =
                        [source |-> "cached",
                         provider |-> OrNull(cached.refreshStatus.provider),
                         attemptedAt |-> t,
                         lastLiveGeneratedAt |-> cached.generatedAt,
                         reasonType |-> "processing",
                         reasonCode |-> Null]]

\* { ...cached, refreshStatus: { ... } }
FallbackPayload(cached, e, t) ==
    LET c == classifyFetchError(ErrorOf(e))
    IN [cached EXCEPT !.refreshStatus =
            [source |-> "cached",
             provider |-> OrNull(cached.refreshStatus.provider),
             attemptedAt |-> t,
             lastLiveGeneratedAt |-> cached.generatedAt,
             reasonType |-> IF c.isNetworkLike THEN "network" ELSE "processing",
             reasonCode |-> OrNull(c.code)]]

\* ------------------------------------------------------------ fetchJson

IdleFeed == [st |-> "idle", attempt |-> 0, doc |-> "none"]

\* the first attempt of fetchJson for each feed of S
StartFeeds(fs, S) ==
    [f \in Feeds |->
        IF f \in S THEN [st |-> "pending", attempt |-> 1, doc |-> "none"] ELSE fs[f]]

\* the fetchJson calls still in their loop
Active(fs) == {f \in Feeds : fs[f].st = "pending"}

\* what res.json() of a feed can be
DocsFor(f) == IF f.kind = "standings" THEN {"enough", "short"} ELSE {"games"}

\* Awaited, but with no one awaiting the schedule feeds
AwaitedStandingsOnly(f) ==
    \/ pc = "espn_standings" /\ f = EspnStandingsFeed
    \/ pc = "nba" /\ f = NbaStandingsFeed

\* the feeds main is awaiting (directly, or through Promise.all)
Awaited(f) ==
    \/ pc = "espn_standings" /\ f = EspnStandingsFeed
    \/ pc = "espn_schedules" /\ f \in EspnScheduleFeeds
    \/ pc = "nba" /\ f \in NbaFeeds

\* a settled fetchJson promise: its result is kept while a loader still
\* awaits it, and of its loop only the outcome remains
Settled(outcome, d) == [st |-> outcome, attempt |-> 0, doc |-> d]

\* the loader has taken (or dropped) the results of its feeds
Consumed(fs) ==
    [f \in Feeds |-> IF fs[f].st \in {"ok", "failed"} THEN Settled(fs[f].st, "none") ELSE fs[f]]

\* ------------------------------------------------------------ loaders

Rows(docs) == [of |-> "rows", from |-> docs]
UpcomingSchedule(docs) == [of |-> "schedule", from |-> docs]

EspnDocs(fs, t) ==
    {Doc(f, fs[f].doc, t) : f \in {EspnStandingsFeed} \cup EspnScheduleFeeds}

NbaDocs(fs, t) == {Doc(f, fs[f].doc, t) : f \in NbaFeeds}

\* the payload loadFromEspn returns once all its feeds are in
loadFromEspn(fs, t) ==
    buildLivePayload(Rows(EspnDocs(fs, t)), UpcomingSchedule(EspnDocs(fs, t)),
                     "espn", "espn", t)

\* loadFromNba, but building its rows on the standings ESPN returned
loadFromNbaMerging(fs, t) ==
    buildLivePayload(Rows({Doc(EspnStandingsFeed, "enough", t), Doc(NbaScheduleFeed, "games", t)}),
                     UpcomingSchedule(NbaDocs(fs, t)), "nba", "nba", t)

\* the payload loadFromNba returns once both its feeds are in
loadFromNba(fs, t) ==
    buildLivePayload(Rows(NbaDocs(fs, t)), UpcomingSchedule(NbaDocs(fs, t)),
                     "nba", "nba", t)

\* loader p returned: loadLivePayload returns its payload, main goes on to
\* await writePayload(payload)
LiveObtained(p, fs) ==
    LET pl == IF p = "espn" THEN loadFromEspn(fs, now) ELSE loadFromNba(fs, now)
    IN /\ feeds' = Consumed(fs)
       /\ payload' = pl
       /\ obtained' = p
       /\ lastLive' = pl
       /\ pc' = "write_live"
       /\ UNCHANGED <<aux, disk, error, exitCode, now, run, failed, loaderError, thrown,
                      wrote, reads, writes, diskAtStart>>

\* ProviderFailed, but fetching the failed provider's standings once more
ProviderFailedRefetching(p, e, fs) ==
    /\ failed' = failed \cup {p}
    /\ IF p # Providers[Len(Providers)]
       THEN /\ feeds' = StartFeeds(Consumed(fs), NbaFeeds \cup {EspnStandingsFeed})
            /\ pc' = "nba"
            /\ UNCHANGED <<error, loaderError>>
       ELSE /\ feeds' = StartFeeds(Consumed(fs), {NbaStandingsFeed})
            /\ pc' = "read_cache"
            /\ loaderError' = e
            /\ error' = e
    /\ UNCHANGED <<aux, disk, payload, exitCode, now, run, thrown, obtained,
                   wrote, reads, writes, diskAtStart, lastLive>>

\* loader p threw e: loadLivePayload sets lastError = e and tries the next
\* loader; after the last one it throws lastError, and main's catch awaits
\* readCachedPayload(). lastError is read only by that throw, after the last
\* loader has overwritten it: the value an earlier loader left is not kept.
ProviderFailed(p, e, fs) ==
    /\ failed' = failed \cup {p}
    /\ IF p # Providers[Len(Providers)]
       THEN /\ feeds' = StartFeeds(Consumed(fs), NbaFeeds)
            /\ pc' = "nba"
            /\ UNCHANGED <<error, loaderError>>
       ELSE /\ feeds' = Consumed(fs)
            /\ pc' = "read_cache"
            /\ loaderError' = e
            /\ error' = e
    /\ UNCHANGED <<aux, disk, payload, exitCode, now, run, thrown, obtained,
                   wrote, reads, writes, diskAtStart, lastLive>>

\* a step of one fetchJson call that no loader reacts to
FeedStep(fs) ==
    /\ feeds' = fs
    /\ UNCHANGED <<aux, disk, pc, error, payload, exitCode, now, run, failed, loaderError,
                   thrown, obtained, wrote, reads, writes, diskAtStart, lastLive>>

\* ------------------------------------------------------------ actions

\* node scripts/build-data.mjs: main() runs up to its first await, the
\* fetch of the ESPN standings
StartRun ==
    /\ pc \in {"idle", "done"}
    /\ Active(feeds) = {}
    /\ run < MaxRuns
    /\ run' = run + 1
    /\ now' = now + 1
    /\ feeds' = StartFeeds([f \in Feeds |-> IdleFeed], {EspnStandingsFeed})
    /\ pc' = "espn_standings"
    /\ error' = "none"
    /\ thrown' = "none"
    /\ payload' = NullPayload
    /\ exitCode' = 0
    /\ failed' = {}
    /\ loaderError' = "none"
    /\ obtained' = "none"
    /\ wrote' = "none"
    /\ reads' = 0
    /\ writes' = 0
    /\ diskAtStart' = disk
    /\ UNCHANGED <<aux, disk, lastLive>>

\* an attempt of fetchJson gets a 2xx response with a JSON body
FetchOk(f, d) ==
    /\ feeds[f].st = "pending"
    /\ d \in DocsFor(f)
    /\ LET fs == [feeds EXCEPT ![f] = Settled("ok", d)]
       IN CASE pc = "espn_standings" /\ f = EspnStandingsFeed ->
                 IF d = "short"
                 THEN ProviderFailed("espn", "shape_espn", fs)
                 ELSE /\ feeds' = StartFeeds(fs, EspnScheduleFeeds)
                      /\ pc' = "espn_schedules"
                      /\ UNCHANGED <<aux, disk, error, payload, exitCode, now, run, failed,
                                     loaderError, thrown, obtained, wrote, reads,
                                     writes, diskAtStart, lastLive>>
            [] pc = "espn_schedules" /\ f \in EspnScheduleFeeds ->
                 IF \A g \in EspnScheduleFeeds : fs[g].st = "ok"
                 THEN LiveObtained("espn", fs)
                 ELSE FeedStep(fs)
            [] pc = "nba" /\ f \in NbaFeeds ->
                 IF \A g \in NbaFeeds : fs[g].st = "ok"
                 THEN IF fs[NbaStandingsFeed].doc = "short"
                      THEN ProviderFailed("nba", "shape_nba", fs)
                      ELSE LiveObtained("nba", fs)
                 ELSE FeedStep(fs)
            [] OTHER -> FeedStep(Consumed(fs))

\* FetchRetry, but starting over after the last attempt
FetchRetryForever(f) ==
    /\ feeds[f].st = "pending"
    /\ FeedStep([feeds EXCEPT ![f] =
                    [@ EXCEPT !.attempt = IF @ < Attempts(f) THEN @ + 1 ELSE 1]])

\* an attempt of fetchJson before the last fails (non-2xx, transport
\* error, bad body, abort by the timer): the call sleeps 1200 * attempt ms
\* and goes into its next attempt
FetchRetry(f) ==
    /\ feeds[f].st = "pending"
    /\ feeds[f].attempt < Attempts(f)
    /\ FeedStep([feeds EXCEPT ![f] = [@ EXCEPT !.attempt = @ + 1]])

\* the last attempt of fetchJson fails with e: it throws lastError, which
\* is e; a rejection nobody awaits any more is dropped
FetchFail(f, e) ==
    /\ feeds[f].st = "pending"
    /\ feeds[f].attempt = Attempts(f)
    /\ e \in FetchErrorKinds
    /\ LET fs == [feeds EXCEPT ![f] = Settled("failed", "none")]
       IN IF Awaited(f)
          THEN ProviderFailed(f.prov, e, fs)
          ELSE FeedStep(fs)

\* what a rejected writePayload leaves at OUTPUT_PATH: the file as it was
\* (mkdir or open failed) or a truncated one (the write failed)
AfterFailedWrite(file) == {file, Garbage}

\* await writePayload(payload) in the try block resolves
WriteLiveOk ==
    /\ pc = "write_live"
    /\ disk' = payload
    /\ writes' = writes + 1
    /\ wrote' = "live"
    /\ pc' = "done"
    /\ UNCHANGED <<aux, feeds, error, payload, exitCode, now, run, failed, loaderError,
                   thrown, obtained, reads, diskAtStart, lastLive>>

\* await writePayload(payload) in the try block rejects: control enters
\* the catch block, which awaits readCachedPayload()
WriteLiveFail ==
    /\ pc = "write_live"
    /\ disk' \in AfterFailedWrite(disk)
    /\ writes' = writes + 1
    /\ error' = "write"
    /\ pc' = "read_cache"
    /\ UNCHANGED <<aux, feeds, payload, exitCode, now, run, failed, loaderError, thrown,
                   obtained, wrote, reads, diskAtStart, lastLive>>

\* ReadCache, but returning quietly when there is no snapshot
ReadCacheSwallowing ==
    /\ pc = "read_cache"
    /\ reads' = reads + 1
    /\ LET cached == readCachedPayload(disk)
       IN IF cached = NullPayload
          THEN /\ pc' = "done"
               /\ UNCHANGED <<payload, thrown, exitCode>>
          ELSE /\ payload' = FallbackPayload(cached, error, now)
               /\ pc' = "write_cached"
               /\ UNCHANGED <<thrown, exitCode>>
    /\ UNCHANGED <<aux, disk, feeds, error, now, run, failed, loaderError, obtained,
                   wrote, writes, diskAtStart, lastLive>>

\* the catch block of main from readCachedPayload() on: no snapshot, rethrow
\* (main().catch sets exitCode 1); else build the fallback and await its write
ReadCache ==
    /\ pc = "read_cache"
    /\ reads' = reads + 1
    /\ LET cached == readCachedPayload(disk)
       IN IF cached = NullPayload
          THEN /\ thrown' = error
               /\ exitCode' = 1
               /\ pc' = "done"
               /\ UNCHANGED payload
          ELSE /\ payload' = FallbackPayload(cached, error, now)
               /\ pc' = "write_cached"
               /\ UNCHANGED <<thrown, exitCode>>
    /\ UNCHANGED <<aux, disk, feeds, error, now, run, failed, loaderError, obtained,
                   wrote, writes, diskAtStart, lastLive>>

\* await writePayload(fallbackPayload) resolves
WriteCachedOk ==
    /\ pc = "write_cached"
    /\ disk' = payload
    /\ writes' = writes + 1
    /\ wrote' = "cached"
    /\ pc' = "done"
    /\ UNCHANGED <<aux, feeds, error, payload, exitCode, now, run, failed, loaderError,
                   thrown, obtained, reads, diskAtStart, lastLive>>

\* await writePayload(fallbackPayload) rejects: main rejects
WriteCachedFail ==
    /\ pc = "write_cached"
    /\ disk' \in AfterFailedWrite(disk)
    /\ writes' = writes + 1
    /\ thrown' = "write"
    /\ exitCode' = 1
    /\ pc' = "done"
    /\ UNCHANGED <<aux, feeds, error, payload, now, run, failed, loaderError, obtained,
                   wrote, reads, diskAtStart, lastLive>>

AllFeedsIn == [f \in Feeds |-> Settled("ok", IF f.kind = "standings" THEN "enough" ELSE "games")]

\* the file the first run finds: none, an unreadable one, or what an earlier
\* live run wrote at T0
InitialFiles == {Missing, Garbage, NoRows, loadFromEspn(AllFeedsIn, 0)}

PInit(files) ==
    /\ disk \in files
    /\ pc = "idle"
    /\ feeds = [f \in Feeds |-> IdleFeed]
    /\ error = "none"
    /\ thrown = "none"
    /\ payload = NullPayload
    /\ exitCode = 0
    /\ now = 0
    /\ run = 0
    /\ failed = {}
    /\ loaderError = "none"
    /\ obtained = "none"
    /\ wrote = "none"
    /\ reads = 0
    /\ writes = 0
    /\ diskAtStart = disk
    /\ lastLive = readCachedPayload(disk)

RIdle(teams) ==
    /\ bottomTeams \in teams
    /\ rowsNow = 0
    /\ counts = <<>>
    /\ game = <<>>
    /\ processed = 0
    /\ remaining = <<>>
    /\ rowsResult = <<>>
    /\ rpc = "off"

ROff == RIdle({<<>>})

SOff ==
    /\ today = 0
    /\ builder = "off"
    /\ dayKeys = <<>>
    /\ dayGames = <<>>
    /\ shandled = 0
    /\ scheduleGames = <<>>
    /\ schedule = <<>>
    /\ spc = "off"

NOff ==
    /\ normalizer = "off"
    /\ byId = <<>>
    /\ taken = 0
    /\ seenGames = <<>>
    /\ standings = <<>>
    /\ npc = "off"

COff ==
    /\ graph = <<>>
    /\ matching = {}
    /\ out = <<>>
    /\ seen = {}
    /\ stack = <<>>
    /\ dpc = "off"

FOff ==
    /\ attempts = 0
    /\ attempt = 0
    /\ requests = 0
    /\ lastError = "none"
    /\ waits = <<>>
    /\ errors = <<>>
    /\ result = "none"
    /\ fpc = "off"

Init == PInit(InitialFiles) /\ ROff /\ SOff /\ NOff /\ COff /\ FOff

Next ==
    \/ StartRun
    \/ \E f \in Feeds : \E d \in {"enough", "short", "games"} : FetchOk(f, d)
    \/ \E f \in Feeds : FetchRetry(f)
    \/ \E f \in Feeds : \E e \in FetchErrorKinds : FetchFail(f, e)
    \/ WriteLiveOk
    \/ WriteLiveFail
    \/ ReadCache
    \/ WriteCachedOk
    \/ WriteCachedFail

Spec == Init /\ [][Next]_vars

\* what a started run does by itself: every fetch attempt ends (with a
\* response, an error, or the abort of its FETCH_TIMEOUT_MS timer), every
\* sleep ends, and every file operation resolves or rejects
RunStep ==
    \/ \E f \in Feeds : \E d \in {"enough", "short", "games"} : FetchOk(f, d)
    \/ \E f \in Feeds : FetchRetry(f)
    \/ \E f \in Feeds : \E e \in FetchErrorKinds : FetchFail(f, e)
    \/ WriteLiveOk
    \/ WriteLiveFail
    \/ ReadCache
    \/ WriteCachedOk
    \/ WriteCachedFail

\* one invocation of the script, on any file it may find
FirstRun == run = 0 /\ StartRun

NextOnce == FirstRun \/ RunStep

SpecLive == Init /\ [][NextOnce]_vars /\ WF_vars(RunStep)

\* ============================================================ buildRows

\* Number of games one call of buildRows is given.
MaxGames == 3

TeamIds == {"t1", "t2", "t3", "t4"}

TeamNameOf(id) ==
    CASE id = "t1" -> "Wizards"
      [] id = "t2" -> "Hawks"
      [] id = "t3" -> "Nets"
      [] id = "t4" -> "Bulls"

\* String.prototype.localeCompare on the team names: negative, 0, positive
NameOrder == <<"Bulls", "Hawks", "Nets", "Wizards">>
NameIndex(name) == CHOOSE i \in 1..Len(NameOrder) : NameOrder[i] = name
localeCompare(a, b) == NameIndex(a) - NameIndex(b)

TeamRecord(id) == [teamId |-> id, teamName |-> TeamNameOf(id)]

\* the teams as the standings rank them, worst first
StandingsOrder == <<TeamRecord("t3"), TeamRecord("t1"), TeamRecord("t4"), TeamRecord("t2")>>

RemoveAt(seq, i) == SubSeq(seq, 1, i - 1) \o SubSeq(seq, i + 1, Len(seq))

\* standings.slice(0, BOTTOM_TEAM_COUNT): every tracked set that leaves one
\* team of the league untracked
TrackedChoices == {RemoveAt(StandingsOrder, i) : i \in 1..Len(StandingsOrder)}

IdsOf(teams) == {teams[i].teamId : i \in 1..Len(teams)}

\* the canonical games buildRows may meet: any two sides, final or not, no
\* date or a date before, at or after now
GameDates == {NoInstant, 0, 1, 2}
Games == [homeTeamId : TeamIds, awayTeamId : TeamIds, isFinal : BOOLEAN, date : GameDates]

\* a Map is the function from its keys to their values
MapGet(m, k) == IF k \in DOMAIN m THEN m[k] ELSE 0          \* get(k) ?? 0
MapSet(m, k, v) == [x \in DOMAIN m \cup {k} |-> IF x = k THEN v ELSE m[x]]

\* counts, with a zero for every ordered pair of distinct tracked teams
InitCounts(teams) ==
    [t \in IdsOf(teams) |-> [o \in IdsOf(teams) \ {t} |-> 0]]

\* CountGame, but counting the game for the home team only
CountGameOneSided(cnt, teamIds, g, t) ==
    IF g.homeTeamId \notin teamIds \/ g.awayTeamId \notin teamIds THEN cnt
    ELSE IF g.isFinal \/ ~(g.date = NoInstant \/ g.date >= t) THEN cnt
    ELSE [cnt EXCEPT ![g.homeTeamId] =
                MapSet(cnt[g.homeTeamId], g.awayTeamId, MapGet(cnt[g.homeTeamId], g.awayTeamId) + 1)]

\* one iteration of for (const game of games)
CountGame(cnt, teamIds, g, t) ==
    IF g.homeTeamId \notin teamIds \/ g.awayTeamId \notin teamIds THEN cnt
    ELSE LET isInFutureOrUnknown == g.date = NoInstant \/ g.date >= t
         IN IF g.isFinal \/ ~isInFutureOrUnknown THEN cnt
            ELSE LET h == g.homeTeamId
                     a == g.awayTeamId
                     c1 == [cnt EXCEPT ![h] = MapSet(cnt[h], a, MapGet(cnt[h], a) + 1)]
                 IN [c1 EXCEPT ![a] = MapSet(c1[a], h, MapGet(c1[a], h) + 1)]

\* [...entries].map(...).sort(by opponentTeam): the entries of one team's
\* Map, ascending by opponent name
RECURSIVE SortedByName(_)
SortedByName(entries) ==
    IF entries = {} THEN <<>>
    ELSE LET first == CHOOSE e \in entries :
                         \A o \in entries : localeCompare(e.opponentTeam, o.opponentTeam) <= 0
         IN <<first>> \o SortedByName(entries \ {first})

RECURSIVE SumRemaining(_)
SumRemaining(seq) ==
    IF seq = <<>> THEN 0 ELSE seq[1].gamesRemaining + SumRemaining(Tail(seq))

\* a string of the output is the sequence of the pieces it is put together
\* from; `${x.opponentTeam} (${x.gamesRemaining})`
RenderOpponent(x) == <<x.opponentTeam, " (", ToString(x.gamesRemaining), ")">>

\* Array.prototype.join
RECURSIVE Join(_, _)
Join(texts, separator) ==
    IF texts = <<>> THEN <<>>
    ELSE IF Len(texts) = 1 THEN texts[1]
    ELSE texts[1] \o <<separator>> \o Join(Tail(texts), separator)

OpponentCounts(teams, cnt, id) ==
    SortedByName({[opponentTeamId |-> o,
                   opponentTeam |-> IF o \in IdsOf(teams) THEN TeamNameOf(o) ELSE o,
                   gamesRemaining |-> cnt[id][o]] : o \in DOMAIN cnt[id]})

\* bottomTeams.map((team, rankIndex) => ...)
RowsOf(teams, cnt) ==
    [i \in 1..Len(teams) |->
        LET remainingOnly == SelectSeq(OpponentCounts(teams, cnt, teams[i].teamId),
                                       LAMBDA x : x.gamesRemaining > 0)
        IN [rank |-> i,
            teamId |-> teams[i].teamId,
            team |-> teams[i].teamName,
            totalRemainingVsBottom12 |-> SumRemaining(remainingOnly),
            opponents |-> remainingOnly,
            opponentsText |-> Join([k \in 1..Len(remainingOnly) |->
                                       RenderOpponent(remainingOnly[k])], ", ")]]

\* whether g is, for team id, a game still to play against another tracked
\* team: not final, no date or a date not before t
IsRemainingFor(g, id, teamIds, t) ==
    /\ ~g.isFinal
    /\ g.date = NoInstant \/ g.date >= t
    /\ \/ g.homeTeamId = id /\ g.awayTeamId \in teamIds \ {id}
       \/ g.awayTeamId = id /\ g.homeTeamId \in teamIds \ {id}

\* buildRows(bottomTeams, games) up to its loop over the games
RInit ==
    /\ bottomTeams \in TrackedChoices
    /\ rowsNow = 1
    /\ counts = InitCounts(bottomTeams)
    /\ game = <<>>
    /\ processed = 0
    /\ remaining = [t \in IdsOf(bottomTeams) |-> 0]
    /\ rowsResult = <<>>
    /\ rpc = "loop"

\* the loop takes the next game of the list
ProcessGame(g) ==
    /\ rpc = "loop"
    /\ processed < MaxGames
    /\ counts' = CountGame(counts, IdsOf(bottomTeams), g, rowsNow)
    /\ game' = g
    /\ processed' = processed + 1
    /\ remaining' = [t \in DOMAIN remaining |->
                        remaining[t] + IF IsRemainingFor(g, t, IdsOf(bottomTeams), rowsNow) THEN 1 ELSE 0]
    /\ UNCHANGED <<bottomTeams, rowsNow, rowsResult, rpc, pvars, svars, nvars, cvars, fvars>>

\* the list is at its end: the rows are built and returned
BuildRowsReturn ==
    /\ rpc = "loop"
    /\ rowsResult' = RowsOf(bottomTeams, counts)
    /\ rpc' = "done"
    /\ UNCHANGED <<bottomTeams, rowsNow, counts, game, processed, remaining, pvars, svars, nvars, cvars, fvars>>

RNext ==
    \/ \E g \in Games : ProcessGame(g)
    \/ BuildRowsReturn

RowsInit == PInit({Missing}) /\ RInit /\ SOff /\ NOff /\ COff /\ FOff

SpecRows == RowsInit /\ [][RNext]_vars

\* ==================================== buildUpcomingSchedule, buildTodaySchedule

\* Number of games one call of a schedule builder is given.
MaxSchedGames == 2

\* America/New_York in 2026: daylight time from Sunday 8 March 02:00 EST
\* (07:00Z) until Sunday 1 November 02:00 EDT (06:00Z)
DstStart == 66 * 24 + 7
DstEnd == 304 * 24 + 6

EasternOffset(h) == IF h >= DstStart /\ h < DstEnd THEN 0 - 4 ELSE 0 - 5

\* the Eastern calendar date of instant h, as the number of the day in 2026
\* (0 is 2026-01-01); en-CA dates compare as these numbers do
dateKey(h) == (h + EasternOffset(h)) \div 24

\* the instants a builder is called at: every hour of the day before and the
\* day after each change of the Eastern offset
HourWindow == (0 - 26)..26
Instants == {DstStart + d : d \in HourWindow} \cup {DstEnd + d : d \in HourWindow}

\* standings.slice(0, BOTTOM_TEAM_COUNT), for two sizes of the tracked set
SchedTracked == {SubSeq(StandingsOrder, 1, 2), SubSeq(StandingsOrder, 1, 3)}

\* the canonical games a builder may meet: no date, or a date around today
\* <<home, away>>: with two or three teams tracked, games with neither side,
\* the away side, the home side and both sides tracked
SchedPairs == {<<"t4", "t3">>, <<"t4", "t2">>}
SchedOffsets == {0 - 24, 0, 2, 24, 50}
SchedGames(t) ==
    {[homeTeamId |-> p[1], awayTeamId |-> p[2], homeTeamName |-> p[1],
      awayTeamName |-> p[2], date |-> d, statusText |-> Null] :
        p \in SchedPairs, d \in {NoInstant} \cup {t + o : o \in SchedOffsets}}

\* for (let offset = 0; offset < 3; offset += 1) dayKeys.push(dateKey(today + offset * 24h))
UpcomingDayKeys(t) == [i \in 1..3 |-> dateKey(t + (i - 1) * 24)]

RequestedDayKeys(b, t) ==
    IF b = "buildUpcomingSchedule" THEN UpcomingDayKeys(t) ELSE <<dateKey(t)>>

KeySet(keys) == {keys[i] : i \in 1..Len(keys)}

\* bottomTeamNameById.get(id) || the game's own name
TrackedNameOf(teams, id, fallback) ==
    LET hits == SelectSeq(teams, LAMBDA x : x.teamId = id)
    IN IF hits = <<>> THEN fallback ELSE hits[1].teamName

ScheduleEntry(teams, g, id) ==
    [gameId |-> id,
     matchup |-> <<g.awayTeamName, "at", g.homeTeamName>>,
     tipoffUtc |-> g.date,
     trackedTeams |->
        (IF g.awayTeamId \in IdsOf(teams)
            THEN <<TrackedNameOf(teams, g.awayTeamId, g.awayTeamName)>> ELSE <<>>)
        \o (IF g.homeTeamId \in IdsOf(teams)
            THEN <<TrackedNameOf(teams, g.homeTeamId, g.homeTeamName)>> ELSE <<>>),
     status |-> g.statusText]

\* ListGame, but listing only the games with both sides tracked
ListGameBothTracked(listed, keys, teams, g, id) ==
    IF g.date = NoInstant THEN listed
    ELSE IF dateKey(g.date) \notin KeySet(keys) THEN listed
    ELSE IF g.homeTeamId \notin IdsOf(teams) \/ g.awayTeamId \notin IdsOf(teams) THEN listed
    ELSE [listed EXCEPT ![dateKey(g.date)] = Append(@, ScheduleEntry(teams, g, id))]

\* one iteration of for (const game of games)
ListGame(listed, keys, teams, g, id) ==
    IF g.date = NoInstant THEN listed
    ELSE IF dateKey(g.date) \notin KeySet(keys) THEN listed
    ELSE IF g.homeTeamId \notin IdsOf(teams) /\ g.awayTeamId \notin IdsOf(teams) THEN listed
    ELSE [listed EXCEPT ![dateKey(g.date)] = Append(@, ScheduleEntry(teams, g, id))]

\* Array.prototype.sort by tipoff: ascending, equal tipoffs keep their order
RECURSIVE SortByTipoff(_)
SortByTipoff(seq) ==
    IF seq = <<>> THEN <<>>
    ELSE LET i == CHOOSE k \in 1..Len(seq) :
                     /\ \A j \in 1..Len(seq) : seq[k].tipoffUtc <= seq[j].tipoffUtc
                     /\ \A j \in 1..(k - 1) : seq[j].tipoffUtc # seq[k].tipoffUtc
         IN <<seq[i]>> \o SortByTipoff(RemoveAt(seq, i))

\* ScheduleDays, but leaving out the dates that list no game
ScheduleDaysOmittingEmpty(keys, listed) ==
    SelectSeq([i \in 1..Len(keys) |-> [dateEt |-> keys[i], games |-> SortByTipoff(listed[keys[i]])]],
              LAMBDA day : day.games # <<>>)

\* dayKeys.map((dateEt) => ({ dateEt, games: dayGames.get(dateEt) || [] }))
ScheduleDays(keys, listed) ==
    [i \in 1..Len(keys) |-> [dateEt |-> keys[i], games |-> SortByTipoff(listed[keys[i]])]]

SInit ==
    /\ today \in Instants
    /\ builder \in {"buildUpcomingSchedule", "buildTodaySchedule"}
    /\ dayKeys = <<>>
    /\ dayGames = <<>>
    /\ shandled = 0
    /\ scheduleGames = <<>>
    /\ schedule = <<>>
    /\ spc = "start"

\* the builder computes the dates it asks for and an empty list for each
StartSchedule ==
    /\ spc = "start"
    /\ dayKeys' = RequestedDayKeys(builder, today)
    /\ dayGames' = [k \in KeySet(dayKeys') |-> <<>>]
    /\ spc' = "loop"
    /\ UNCHANGED <<today, builder, shandled, scheduleGames, schedule, pvars, rvars, nvars, cvars, fvars>>

\* the loop takes the next game of the list
TakeScheduleGame(g) ==
    /\ spc = "loop"
    /\ shandled < MaxSchedGames
    /\ dayGames' = ListGame(dayGames, dayKeys, bottomTeams, g, shandled + 1)
    /\ shandled' = shandled + 1
    /\ scheduleGames' = Append(scheduleGames, g)
    /\ UNCHANGED <<today, builder, dayKeys, schedule, spc, pvars, rvars, nvars, cvars, fvars>>

\* the list is at its end: each date's games are sorted and the value returned
ReturnSchedule ==
    /\ spc = "loop"
    /\ schedule' =
          IF builder = "buildUpcomingSchedule"
          THEN [timeZone |-> "America/New_York", days |-> ScheduleDays(dayKeys, dayGames)]
          ELSE [timeZone |-> "America/New_York",
                dateEt |-> dayKeys[1],
                games |-> SortByTipoff(dayGames[dayKeys[1]])]
    /\ spc' = "done"
    /\ UNCHANGED <<today, builder, dayKeys, dayGames, shandled, scheduleGames, pvars, rvars, nvars, cvars, fvars>>

SNext ==
    \/ StartSchedule
    \/ \E g \in SchedGames(today) : TakeScheduleGame(g)
    \/ ReturnSchedule

SchedInit == PInit({Missing}) /\ RIdle(SchedTracked) /\ SInit /\ NOff /\ COff /\ FOff

SpecSched == SchedInit /\ [][SNext]_vars

\* ============================== normalizeStandings, normalizeEspnStandings

\* Number of candidates one call of a normalizer is given.
MaxCandidates == 2

\* a JS number, as the fraction num/den in lowest terms with den > 0
RECURSIVE GCD(_, _)
GCD(a, b) == IF b = 0 THEN a ELSE GCD(b, a % b)

Abs(n) == IF n < 0 THEN 0 - n ELSE n

Number(n, d) ==
    LET g == GCD(Abs(n), Abs(d))
        sign == IF d < 0 THEN 0 - 1 ELSE 1
    IN [num |-> sign * (n \div g), den |-> sign * (d \div g)]

Plus(a, b) == Number(a.num * b.den + b.num * a.den, a.den * b.den)
Minus(a, b) == Number(a.num * b.den - b.num * a.den, a.den * b.den)
Divide(a, b) == Number(a.num * b.den, a.den * b.num)
Zero == Number(0, 1)
Positive(a) == a.num > 0

\* a raw value of the document: absent, a number, or a string
Undefined == [type |-> "undefined"]
NumberValue(n, d) == [type |-> "number", value |-> Number(n, d)]
StringValue(text) == [type |-> "string", value |-> text]

\* what toNumber returns for a value that is no finite number
NullNumber == [type |-> "null"]
NotANumber == [type |-> "NaN"]

\* Number(text) of the strings the documents hold
ParseNumber(text) ==
    CASE text = "3" -> Number(3, 1)
      [] text = "" -> Zero
      [] OTHER -> NotANumber

toNumber(raw) ==
    IF raw = Undefined \/ raw = StringValue("") THEN NullNumber
    ELSE LET n == IF raw.type = "number" THEN raw.value ELSE ParseNumber(raw.value)
         IN IF n = NotANumber THEN NullNumber ELSE n

\* a ?? b
Coalesce(a, b) == IF a # Undefined THEN a ELSE b

\* readStat(stats, name1, name2): the first named stat with a number
readStat(first, second) ==
    IF toNumber(first) # NullNumber THEN toNumber(first) ELSE toNumber(second)

\* the candidates of a document: a team that may lack its id or its name,
\* and raw wins, losses and the two places a win percentage is read from
RawWins == {Undefined, NumberValue(1, 1), StringValue("3")}
RawLosses == {Undefined, NumberValue(1, 1), NumberValue(0 - 1, 1)}
RawPcts == {Undefined, NumberValue(1, 2), NumberValue(2, 1), StringValue("")}
RawOtherPcts == {Undefined, NumberValue(1, 2)}
CandidateTeams ==
    {[teamId |-> "", teamName |-> "Nets"], [teamId |-> "t3", teamName |-> "Nets"], [teamId |-> "t1", teamName |-> "Wizards"],
     [teamId |-> "t4", teamName |-> "Bulls"]}
Candidates ==
    {[teamId |-> t.teamId, teamName |-> t.teamName, wins |-> w, losses |-> l,
      winPct |-> p, winPercentage |-> q] :
        t \in CandidateTeams, w \in RawWins, l \in RawLosses,
        p \in RawPcts, q \in RawOtherPcts}

\* let winPct = ...; if (winPct === null && wins !== null && losses !== null
\* && wins + losses > 0) winPct = wins / (wins + losses)
DeriveWinPct(supplied, wins, losses) ==
    IF supplied = NullNumber /\ wins # NullNumber /\ losses # NullNumber /\ Positive(Plus(wins, losses))
    THEN Divide(wins, Plus(wins, losses))
    ELSE supplied

\* the record a candidate yields, or NullNumber when the loop skips it
TeamRecordOf(n, c) ==
    LET wins == toNumber(c.wins)
        losses == toNumber(c.losses)
        supplied == IF n = "normalizeStandings"
                    THEN toNumber(Coalesce(c.winPct, c.winPercentage))
                    ELSE readStat(c.winPct, c.winPercentage)
        winPct == DeriveWinPct(supplied, wins, losses)
    IN IF c.teamId = "" \/ c.teamName = "" \/ winPct = NullNumber THEN NullNumber
       ELSE [teamId |-> c.teamId, teamName |-> c.teamName,
             wins |-> wins, losses |-> losses, winPct |-> winPct]

\* (wins ?? 0) + (losses ?? 0)
OrZero(x) == IF x = NullNumber THEN Zero ELSE x
GamesPlayed(r) == Plus(OrZero(r.wins), OrZero(r.losses))

\* byId.get / byId.set on the Map kept in insertion order
PositionOf(map, id) ==
    LET hits == {i \in 1..Len(map) : map[i].teamId = id}
    IN IF hits = {} THEN 0 ELSE CHOOSE i \in hits : TRUE

\* Retain, but never replacing the record a team already has
RetainFirstSeen(map, n, c) ==
    LET r == TeamRecordOf(n, c)
    IN IF r = NullNumber THEN map
       ELSE IF PositionOf(map, r.teamId) = 0 THEN Append(map, r) ELSE map

\* one iteration of for (const c of candidates)
Retain(map, n, c) ==
    LET r == TeamRecordOf(n, c)
    IN IF r = NullNumber THEN map
       ELSE LET at == PositionOf(map, r.teamId)
            IN IF at = 0 THEN Append(map, r)
               ELSE IF ~Positive(Minus(GamesPlayed(map[at]), GamesPlayed(r)))
                    THEN [map EXCEPT ![at] = r]
                    ELSE map

\* CompareRecords, but without the last key, the team name
CompareRecordsWithoutName(a, b) ==
    IF a.winPct # b.winPct THEN Minus(a.winPct, b.winPct).num
    ELSE IF GamesPlayed(a) # GamesPlayed(b) THEN Minus(GamesPlayed(b), GamesPlayed(a)).num
    ELSE 0

\* CompareRecords, but with the fewer games played first
CompareRecordsFewerFirst(a, b) ==
    IF a.winPct # b.winPct THEN Minus(a.winPct, b.winPct).num
    ELSE IF GamesPlayed(a) # GamesPlayed(b) THEN Minus(GamesPlayed(a), GamesPlayed(b)).num
    ELSE localeCompare(a.teamName, b.teamName)

\* the comparator of the final sort: negative, 0, positive
CompareRecords(a, b) ==
    IF a.winPct # b.winPct THEN Minus(a.winPct, b.winPct).num
    ELSE IF GamesPlayed(a) # GamesPlayed(b) THEN Minus(GamesPlayed(b), GamesPlayed(a)).num
    ELSE localeCompare(a.teamName, b.teamName)

\* [...byId.values()].sort(comparator): equal records keep their order
RECURSIVE SortRecords(_)
SortRecords(seq) ==
    IF seq = <<>> THEN <<>>
    ELSE LET i == CHOOSE k \in 1..Len(seq) :
                     /\ \A j \in 1..Len(seq) : CompareRecords(seq[k], seq[j]) <= 0
                     /\ \A j \in 1..(k - 1) : CompareRecords(seq[j], seq[k]) # 0
         IN <<seq[i]>> \o SortRecords(RemoveAt(seq, i))

NInit ==
    /\ normalizer \in {"normalizeStandings", "normalizeEspnStandings"}
    /\ byId = <<>>
    /\ taken = 0
    /\ seenGames = [id \in TeamIds |-> {}]
    /\ standings = <<>>
    /\ npc = "loop"

\* the loop takes the next candidate
TakeCandidate(c) ==
    /\ npc = "loop"
    /\ taken < MaxCandidates
    /\ byId' = Retain(byId, normalizer, c)
    /\ taken' = taken + 1
    /\ seenGames' = LET r == TeamRecordOf(normalizer, c)
                    IN IF r = NullNumber THEN seenGames
                       ELSE [seenGames EXCEPT ![r.teamId] = @ \cup {GamesPlayed(r)}]
    /\ UNCHANGED <<normalizer, standings, npc, pvars, rvars, svars, cvars, fvars>>

\* the candidates are at their end: the records are sorted and returned
ReturnStandings ==
    /\ npc = "loop"
    /\ standings' = SortRecords(byId)
    /\ npc' = "done"
    /\ UNCHANGED <<normalizer, byId, taken, seenGames, pvars, rvars, svars, cvars, fvars>>

NNext ==
    \/ \E c \in Candidates : TakeCandidate(c)
    \/ ReturnStandings

StandInit == PInit({Missing}) /\ ROff /\ SOff /\ NInit /\ COff /\ FOff

SpecStand == StandInit /\ [][NNext]_vars

\* ============================================================ deepCollect

\* if (depth > 20) return out
MaxDepth == 20

\* a value that is no object (a number, a string, null)
Primitive == 0 - 1

\* the object the walk starts from
Root == 0

\* the documents walked: objects 0..last, each with the list of its values.
\* Every graph of three objects with at most two values each ...
SmallNodes == 0..2
SmallValues == {<<>>} \cup {<<a>> : a \in SmallNodes} \cup {<<a, b>> : a, b \in SmallNodes}
SmallGraphs == [SmallNodes -> SmallValues]

\* ... and the chains 0 -> 1 -> ... -> last around the depth limit, with one
\* more value, an object of the chain or a primitive, put first or last in
\* one of the objects at either end
ChainLengths == {MaxDepth - 1, MaxDepth, MaxDepth + 1, MaxDepth + 2}
Chain(last) == [n \in 0..last |-> IF n < last THEN <<n + 1>> ELSE <<>>]
WithValue(g, from, to, first) ==
    [g EXCEPT ![from] = IF first THEN <<to>> \o @ ELSE Append(@, to)]
ChainGraphs ==
    {WithValue(Chain(last), from, to, first) :
        last \in ChainLengths, from \in {0, 1}, to \in {Primitive, 0, 1, 2} , first \in BOOLEAN}
    \cup {WithValue(Chain(last), from, last - back, first) :
        last \in ChainLengths, from \in {0, 1}, back \in {0, 1, 2}, first \in BOOLEAN}
    \cup {WithValue(Chain(last), last - from, to, first) :
        last \in ChainLengths, from \in {0, 1}, to \in {Primitive, 0, 1, 2}, first \in BOOLEAN}
    \cup {WithValue(Chain(last), last - from, last - back, first) :
        last \in ChainLengths, from \in {0, 1}, back \in {0, 1}, first \in BOOLEAN}

\* the predicates: every object, or every second object
Predicates(g) == {DOMAIN g, {n \in DOMAIN g : n % 2 = 0}}

\* the state a call leaves: out, seen and the calls in progress
CallState(o, sn, stk) == [out |-> o, seen |-> sn, stack |-> stk]

\* Enter, but without the WeakSet
EnterWithoutSeen(v, d, o, sn, stk) ==
    IF v = Primitive THEN CallState(o, sn, stk)
    ELSE IF d > MaxDepth THEN CallState(o, sn, stk)
    ELSE CallState(IF v \in matching THEN Append(o, v) ELSE o,
                   sn,
                   Append(stk, [node |-> v, depth |-> d, next |-> 1]))

\* deepCollect(v, predicate, out, seen, d) up to its loop over the values
Enter(v, d, o, sn, stk) ==
    IF v = Primitive THEN CallState(o, sn, stk)
    ELSE IF v \in sn THEN CallState(o, sn, stk)
    ELSE IF d > MaxDepth THEN CallState(o, sn \cup {v}, stk)
    ELSE CallState(IF v \in matching THEN Append(o, v) ELSE o,
                   sn \cup {v},
                   Append(stk, [node |-> v, depth |-> d, next |-> 1]))

CInit ==
    /\ graph \in SmallGraphs \cup ChainGraphs
    /\ matching \in Predicates(graph)
    /\ out = <<>>
    /\ seen = {}
    /\ stack = <<>>
    /\ dpc = "start"

Leave(st) ==
    /\ out' = st.out
    /\ seen' = st.seen
    /\ stack' = st.stack
    /\ dpc' = IF st.stack = <<>> THEN "done" ELSE "walk"
    /\ UNCHANGED <<graph, matching, pvars, rvars, svars, nvars, fvars>>

\* deepCollect(root, predicate)
CallRoot ==
    /\ dpc = "start"
    /\ Leave(Enter(Root, 0, out, seen, stack))

\* the loop of the innermost call passes its next value to deepCollect
VisitValue ==
    /\ dpc = "walk"
    /\ LET top == stack[Len(stack)]
       IN /\ top.next <= Len(graph[top.node])
          /\ Leave(Enter(graph[top.node][top.next], top.depth + 1, out, seen,
                         [stack EXCEPT ![Len(stack)].next = @ + 1]))

\* the loop of the innermost call is over: return out
ReturnOut ==
    /\ dpc = "walk"
    /\ stack[Len(stack)].next > Len(graph[stack[Len(stack)].node])
    /\ Leave(CallState(out, seen, SubSeq(stack, 1, Len(stack) - 1)))

CNext ==
    \/ CallRoot
    \/ VisitValue
    \/ ReturnOut

CollectInit == PInit({Missing}) /\ ROff /\ SOff /\ NOff /\ CInit /\ FOff

SpecCollect == CollectInit /\ [][CNext]_vars

\* a call in progress is not suspended for ever: deepCollect is synchronous
SpecCollectLive == CollectInit /\ [][CNext]_vars /\ WF_vars(CNext)

\* ================================================= fetchJson, one call

\* the ways one attempt fails: the three of Spec and the timeout's abort
AttemptErrorKinds == FetchErrorKinds \cup {"abort"}

\* const waitMs = 1200 * attempt
WaitMs(k) == 1200 * k

\* BreaksLoop, but leaving the loop on the first failure that is not
\* network-like
BreaksLoopEarly(e, k, limit) ==
    ~classifyFetchError(ErrorOf(e)).isNetworkLike

\* if (!isNetworkLike && attempt >= attempts) break
BreaksLoop(e, k, limit) ==
    ~classifyFetchError(ErrorOf(e)).isNetworkLike /\ k >= limit

FInit ==
    /\ attempts \in {FETCH_ATTEMPTS, ESPN_FETCH_ATTEMPTS}
    /\ attempt = 1
    /\ requests = 0
    /\ lastError = "none"
    /\ waits = <<>>
    /\ errors = <<>>
    /\ result = "none"
    /\ fpc = "request"

\* the end of one iteration of the loop after a failed attempt: break, or
\* attempt += 1 and the loop test; past the loop, throw lastError
EndIteration(e) ==
    IF BreaksLoop(e, attempt, attempts) \/ attempt + 1 > attempts
    THEN /\ result' = e
         /\ fpc' = "thrown"
         /\ UNCHANGED attempt
    ELSE /\ attempt' = attempt + 1
         /\ fpc' = "request"
         /\ UNCHANGED result

\* fetch(url) is called, answers 2xx and res.json() parses: return
AttemptSucceeds ==
    /\ fpc = "request"
    /\ requests' = requests + 1
    /\ result' = "json"
    /\ fpc' = "returned"
    /\ UNCHANGED <<attempts, attempt, lastError, waits, errors, pvars, rvars, svars, nvars, cvars>>

\* fetch(url) is called and the attempt fails with e: the catch block up to
\* its sleep, or to the end of the iteration when no attempt follows
AttemptFails(e) ==
    /\ fpc = "request"
    /\ requests' = requests + 1
    /\ lastError' = e
    /\ errors' = Append(errors, e)
    /\ IF attempt < attempts
       THEN /\ waits' = Append(waits, WaitMs(attempt))
            /\ fpc' = "sleep"
            /\ UNCHANGED <<attempt, result>>
       ELSE /\ EndIteration(e)
            /\ UNCHANGED waits
    /\ UNCHANGED <<attempts, pvars, rvars, svars, nvars, cvars>>

\* sleep(waitMs) resolves
WakeUp ==
    /\ fpc = "sleep"
    /\ EndIteration(lastError)
    /\ UNCHANGED <<attempts, requests, lastError, waits, errors, pvars, rvars, svars, nvars, cvars>>

FNext ==
    \/ AttemptSucceeds
    \/ \E e \in AttemptErrorKinds : AttemptFails(e)
    \/ WakeUp

FetchInit == PInit({Missing}) /\ ROff /\ SOff /\ NOff /\ COff /\ FInit

SpecFetch == FetchInit /\ [][FNext]_vars

\* ================================================================ claims

AllProvidersFailed == failed = {Providers[i] : i \in 1..Len(Providers)}

\* C1: when every provider failed and the run found a readable snapshot, the
\* payload it writes is that snapshot with only refreshStatus replaced:
\* source "cached", lastLiveGeneratedAt the snapshot's generatedAt, and the
\* same generatedAt, rows, todaySchedule and dataSources.
C1_FallbackKeepsSnapshot ==
    (AllProvidersFailed /\ diskAtStart.kind = "payload" /\ pc \in {"write_cached", "done"}) =>
        /\ payload.refreshStatus.source = "cached"
        /\ payload.refreshStatus.lastLiveGeneratedAt = diskAtStart.generatedAt
        /\ payload.generatedAt = diskAtStart.generatedAt
        /\ payload.rows = diskAtStart.rows
        /\ payload.todaySchedule = diskAtStart.todaySchedule
        /\ [payload EXCEPT !.refreshStatus = diskAtStart.refreshStatus] = diskAtStart
        /\ writes = IF pc = "done" THEN 1 ELSE 0
        /\ (wrote = "cached") => (disk = payload)
        /\ (pc = "done" /\ thrown = "none") => (wrote = "cached")

C1_Witness ==
    /\ pc = "done"
    /\ AllProvidersFailed
    /\ wrote = "cached"
    /\ diskAtStart.kind = "payload"
    /\ diskAtStart.generatedAt = 0
    /\ disk.refreshStatus.lastLiveGeneratedAt = 0

\* C2: after every run that publishes, the file's generatedAt, rows and
\* todaySchedule are those of the most recent run that obtained live data, and
\* a cached fallback carries that run's generation instant and provider and
\* the current run's instant as attemptedAt.
C2_FileIsLastLive ==
    (pc = "done" /\ wrote # "none") =>
        /\ disk.generatedAt = lastLive.generatedAt
        /\ disk.rows = lastLive.rows
        /\ disk.todaySchedule = lastLive.todaySchedule
        /\ (wrote = "cached") =>
              /\ disk.refreshStatus.lastLiveGeneratedAt = lastLive.generatedAt
              /\ disk.refreshStatus.provider = lastLive.refreshStatus.provider
              /\ disk.refreshStatus.attemptedAt = now

\* C3: when every provider failed and there is no readable snapshot, main
\* rejects with the last provider's error, nothing is written and the exit
\* code is 1; a run that published ends with exit code 0.
C3_NoSnapshotFails ==
    /\ (AllProvidersFailed /\ diskAtStart.kind # "payload") =>
          /\ writes = 0
          /\ disk = diskAtStart
          /\ wrote = "none"
          /\ (pc = "done") =>
                /\ thrown = loaderError
                /\ thrown \in FetchErrorKinds \cup {"shape_nba"}
                /\ exitCode = 1
    /\ (pc = "done" /\ wrote # "none") => (exitCode = 0)

C3_Witness ==
    /\ pc = "done"
    /\ AllProvidersFailed
    /\ diskAtStart.kind = "garbage"
    /\ exitCode = 1
    /\ thrown = "http"

FromProvider(pl, p, t) ==
    /\ pl.refreshStatus.source = "live"
    /\ pl.refreshStatus.provider = p
    /\ pl.dataSources = p
    /\ \A d \in pl.rows.from \cup pl.todaySchedule.from : d.feed.prov = p /\ d.at = t

\* C4: no NBA feed is requested before the ESPN loader has failed, no NBA
\* feed is requested once the ESPN loader has returned, and every document
\* behind a live payload's rows and schedule, its dataSources and its
\* refreshStatus.provider are those of the one provider that returned it.
C4_ProvidersInOrder ==
    /\ (\E f \in NbaFeeds : feeds[f].st # "idle") => ("espn" \in failed)
    /\ (obtained = "espn") => (\A f \in NbaFeeds : feeds[f].st = "idle")
    /\ (obtained # "none") => (obtained \notin failed)
    /\ (pc = "write_live") => FromProvider(payload, obtained, now)
    /\ (wrote = "live") => FromProvider(disk, obtained, now)

C4_Witness ==
    /\ pc = "done"
    /\ wrote = "live"
    /\ obtained = "nba"
    /\ failed = {"espn"}
    /\ disk.refreshStatus.provider = "nba"

Tracked == IdsOf(bottomTeams)

\* the row returned for a team, and the count it lists for an opponent
RowOf(id) == rowsResult[CHOOSE i \in 1..Len(rowsResult) : rowsResult[i].teamId = id]

ListedCount(id, opp) ==
    LET hits == SelectSeq(RowOf(id).opponents, LAMBDA x : x.opponentTeamId = opp)
    IN IF hits = <<>> THEN 0 ELSE hits[1].gamesRemaining

\* C5: after any number of games, the count recorded for (A,B) equals the
\* count recorded for (B,A) for every two tracked teams, in the matrix and in
\* the opponents the rows list.
C5_MatrixSymmetric ==
    /\ (rpc \in {"loop", "done"}) =>
          \A a \in Tracked : \A b \in Tracked :
              MapGet(counts[a], b) = MapGet(counts[b], a)
    /\ (rpc = "done") =>
          \A a \in Tracked : \A b \in Tracked :
              ListedCount(a, b) = ListedCount(b, a)

C5_Witness ==
    /\ rpc = "done"
    /\ processed = MaxGames
    /\ \E a \in Tracked : \E b \in Tracked \ {a} :
          /\ counts[a][b] = 2
          /\ ListedCount(b, a) = 2

\* the games that count: both sides tracked, not final, undated or not past
Counts(g) ==
    /\ g.homeTeamId \in Tracked
    /\ g.awayTeamId \in Tracked
    /\ ~g.isFinal
    /\ g.date = NoInstant \/ g.date >= rowsNow

\* C6: a game changes the matrix if and only if both its sides are tracked,
\* it is not final and it has no date or a date at or after now; such a game
\* adds exactly one to the (home, away) cell and exactly one to the
\* (away, home) cell, and nothing else changes.
C6_GameEffect ==
    [][(processed' = processed + 1) =>
          LET g == game'
              h == g.homeTeamId
              a == g.awayTeamId
          IN /\ (counts' # counts) <=> Counts(g)
             /\ Counts(g) =>
                   /\ MapGet(counts'[h], a) = MapGet(counts[h], a) + 1
                   /\ MapGet(counts'[a], h) = MapGet(counts[a], h) + 1
                   /\ \A x \in Tracked : \A y \in Tracked :
                         (<<x, y>> \notin {<<h, a>>, <<a, h>>}) =>
                             MapGet(counts'[x], y) = MapGet(counts[x], y)]_vars

\* C7: each row's totalRemainingVsBottom12 is the number of games of the list
\* that are not final, undated or not in the past, and between the row's team
\* and another tracked team.
C7_TotalIsRemainingGames ==
    (rpc = "done") =>
        \A i \in 1..Len(rowsResult) :
            rowsResult[i].totalRemainingVsBottom12 = remaining[rowsResult[i].teamId]

\* the day entries of the schedule window returned
WindowDays ==
    IF builder = "buildUpcomingSchedule" THEN schedule.days
    ELSE <<[dateEt |-> schedule.dateEt, games |-> schedule.games]>>

WindowSize == IF builder = "buildUpcomingSchedule" THEN 3 ELSE 1

\* C8: the schedule window returned has exactly K day entries (3 for
\* buildUpcomingSchedule, 1 for buildTodaySchedule), each with a list of games
\* that may be empty, in chronological order, and every date asked for has
\* its entry whether or not a game was listed under it.
C8_WindowHasEveryDay ==
    (spc = "done") =>
        /\ Len(WindowDays) = WindowSize
        /\ \A i \in 1..Len(WindowDays) : Len(WindowDays[i].games) >= 0
        /\ \A i \in 1..Len(WindowDays) : \A j \in i..Len(WindowDays) :
              WindowDays[i].dateEt <= WindowDays[j].dateEt
        /\ \A k \in 1..Len(dayKeys) :
              \E i \in 1..Len(WindowDays) : WindowDays[i].dateEt = dayKeys[k]

C8_Witness ==
    /\ spc = "done"
    /\ builder = "buildUpcomingSchedule"
    /\ shandled = MaxSchedGames
    /\ Len(WindowDays) = 3
    /\ \E i \in 1..3 : WindowDays[i].games = <<>>
    /\ \E i \in 1..3 : WindowDays[i].games # <<>>

\* C9: the day entries of the window are distinct, consecutive Eastern
\* calendar dates, the first being the Eastern date of the instant the builder
\* ran at, on days of 23, 24 and 25 hours alike.
C9_ConsecutiveEasternDays ==
    (spc = "done") =>
        \A i \in 1..Len(WindowDays) : WindowDays[i].dateEt = dateKey(today) + (i - 1)

\* 0 <= x <= 1
InUnitInterval(x) == x.num >= 0 /\ x.num <= x.den

\* C10: every record the standings normalizers emit with wins and losses both
\* known has a winPct between 0 and 1, whether the document supplied the
\* winPct or it was derived from wins and losses.
C10_WinPctInUnitInterval ==
    (npc = "done") =>
        \A i \in 1..Len(standings) :
            (standings[i].wins # NullNumber /\ standings[i].losses # NullNumber) =>
                InUnitInterval(standings[i].winPct)

\* the records emitted for a team id
EmittedFor(id) == {i \in 1..Len(standings) : standings[i].teamId = id}

\* whether x is a greatest element of the set of numbers S
IsGreatest(x, S) == x \in S /\ \A y \in S : ~Positive(Minus(y, x))

\* C11: the normalizer emits at most one record per team id, and the record
\* retained for a team has the greatest wins+losses among the candidates that
\* resolved to that team, in whatever order they were met.
C11_KeepsMostGamesPlayed ==
    /\ (npc \in {"loop", "done"}) =>
          \A i \in 1..Len(byId) :
              /\ \A j \in 1..Len(byId) : (byId[i].teamId = byId[j].teamId) => i = j
              /\ IsGreatest(GamesPlayed(byId[i]), seenGames[byId[i].teamId])
    /\ (npc = "done") =>
          \A id \in TeamIds :
              /\ Cardinality(EmittedFor(id)) <= 1
              /\ (seenGames[id] # {}) <=> (EmittedFor(id) # {})
              /\ \A i \in EmittedFor(id) : IsGreatest(GamesPlayed(standings[i]), seenGames[id])

C11_Witness ==
    /\ npc = "done"
    /\ \E id \in TeamIds :
          /\ Cardinality(seenGames[id]) = 2
          /\ Cardinality(EmittedFor(id)) = 1

\* x < y for two numbers
Less(x, y) == x.num * y.den < y.num * x.den

\* whether record a may stand before record b: smaller winPct, or the same
\* winPct and more games played, or both the same and no later a name
MayPrecede(a, b) ==
    \/ Less(a.winPct, b.winPct)
    \/ /\ a.winPct = b.winPct
       /\ \/ Less(GamesPlayed(b), GamesPlayed(a))
          \/ /\ GamesPlayed(a) = GamesPlayed(b)
             /\ NameIndex(a.teamName) <= NameIndex(b.teamName)

\* C12: the list returned is ordered by winPct ascending, then games played
\* (unknown wins or losses counted as 0) descending, then team name
\* ascending; it holds exactly the retained records, and normalizing the same
\* candidates again gives the same list in the same order.
C12_StandingsOrdered ==
    (npc = "done") =>
        /\ \A i \in 1..Len(standings) : \A j \in (i + 1)..Len(standings) :
              MayPrecede(standings[i], standings[j])
        /\ Len(standings) = Len(byId)
        /\ \A i \in 1..Len(byId) : \E j \in 1..Len(standings) : standings[j] = byId[i]
        /\ SortRecords(byId) = standings
        /\ SortRecords(standings) = standings

C12_Witness ==
    /\ npc = "done"
    /\ Len(standings) = 2
    /\ standings[1].winPct = standings[2].winPct
    /\ GamesPlayed(standings[1]) = GamesPlayed(standings[2])
    /\ standings[1] = byId[2]

\* C13 as stated: among records with equal winPct, the team with fewer games
\* played stands before the team with more games played.
C13_FewerGamesFirst ==
    (npc = "done") =>
        \A i \in 1..Len(standings) : \A j \in 1..Len(standings) :
            (/\ standings[i].winPct = standings[j].winPct
             /\ Less(GamesPlayed(standings[i]), GamesPlayed(standings[j]))) => i < j

\* C13, amended: among records with equal winPct, the team with more games
\* played stands before the team with fewer games played, and so gets the
\* smaller rank number.
C13_MoreGamesFirst ==
    (npc = "done") =>
        \A i \in 1..Len(standings) : \A j \in 1..Len(standings) :
            (/\ standings[i].winPct = standings[j].winPct
             /\ Less(GamesPlayed(standings[j]), GamesPlayed(standings[i]))) => i < j

C13_Witness ==
    /\ npc = "done"
    /\ Len(standings) = 2
    /\ standings[1].winPct = standings[2].winPct
    /\ Less(GamesPlayed(standings[2]), GamesPlayed(standings[1]))
    /\ standings[1] = byId[2]

\* whether the list holds no object twice
NoRepeats(seq) == \A i \in 1..Len(seq) : \A j \in 1..Len(seq) : (seq[i] = seq[j]) => i = j

\* the objects that are values of the objects of S
ValuesOf(S) == UNION {{graph[n][i] : i \in 1..Len(graph[n])} : n \in S} \ {Primitive}

\* the objects of S and those reachable from them by at most k steps
RECURSIVE Within(_, _)
Within(S, k) == IF k = 0 THEN S ELSE Within(S \cup ValuesOf(S), k - 1)

\* whether some object of the graph is reachable from itself
HasCycle ==
    \E n \in DOMAIN graph : n \in Within(ValuesOf({n}), Cardinality(DOMAIN graph))

\* C14: deepCollect terminates on every finite object graph, cyclic ones
\* included, and no object is twice in the list it returns.
C14_Terminates ==
    /\ <>(dpc = "done")
    /\ [](NoRepeats(out))

C14_Witness ==
    /\ dpc = "done"
    /\ HasCycle
    /\ Len(out) >= 2

\* C15: the list returned holds, once each, exactly the objects that satisfy
\* the predicate and are reachable from the root within 20 levels, also when
\* an object is reachable by paths of different lengths, and no object that
\* lies beyond the 20 levels.
C15_CollectsAllWithinDepth ==
    (dpc = "done") =>
        /\ NoRepeats(out)
        /\ {out[i] : i \in 1..Len(out)} = matching \cap Within({Root}, MaxDepth)

\* C16: a fetch that failed on a non-2xx status or a malformed body is
\* classified "other", so the cached fallback it leads to carries reasonType
\* "processing"; a connection reset is classified network-like, and the
\* fallback carries reasonType "network".
C16_ReasonTypeByCause ==
    (pc = "write_cached" /\ error \in FetchErrorKinds) =>
        /\ classifyFetchError(ErrorOf(error)).isNetworkLike = (error = "reset")
        /\ payload.refreshStatus.reasonType =
              IF error = "reset" THEN "network" ELSE "processing"

\* C17: in every run the snapshot is read at most once and only after every
\* provider has failed, and the output file is written at most once.
C17_OneReadOneWrite ==
    /\ reads <= 1
    /\ (reads > 0) => AllProvidersFailed
    /\ writes <= 1

\* C18: one fetchJson call makes at most `attempts` requests (4, or 2 for an
\* ESPN feed); it returns on the first successful response and makes no
\* request after it; after failed attempt k it waits 1200*k ms, and only when
\* another attempt follows; it makes the same number of attempts whether the
\* failures are network-like or not; and what it throws after the last failed
\* attempt is that attempt's error.
C18_RetryPolicy ==
    /\ [](fpc # "off" =>
            /\ attempts \in {4, 2}
            /\ requests <= attempts
            /\ Len(errors) \in {requests - 1, requests}
            /\ waits = [k \in 1..(IF Len(errors) < attempts THEN Len(errors) ELSE attempts - 1) |-> 1200 * k]
            /\ (fpc = "returned") => (result = "json" /\ requests = Len(errors) + 1)
            /\ (fpc = "thrown") =>
                  /\ requests = attempts
                  /\ Len(errors) = attempts
                  /\ result = errors[attempts])
    /\ [][(fpc \in {"returned", "thrown"}) => (requests' = requests)]_vars

C18_Witness ==
    /\ fpc = "thrown"
    /\ attempts = 4
    /\ requests = 4
    /\ waits = <<1200, 2400, 3600>>
    /\ errors = <<"http", "json", "reset", "abort">>

\* the feeds of a provider, and whether all of them have been obtained
FeedsOf(p) == {f \in Feeds : f.prov = p}
AllObtained(p) == \A f \in FeedsOf(p) : feeds[f].st = "ok"

\* a provider attempt yields a payload only with every feed obtained, and
\* fails when one of its feeds has exhausted its retries
AllOrNothing ==
    \A p \in {"espn", "nba"} :
        /\ (obtained = p) => AllObtained(p)
        /\ (\E f \in FeedsOf(p) : feeds[f].st = "failed") => (p \in failed /\ obtained # p)

\* C19 as stated: the attempt yields a payload only with every feed obtained,
\* fails when a feed exhausted its retries though siblings succeeded, and no
\* normalization or row building starts before all the provider's feeds have
\* been obtained. (At "espn_schedules" normalizeEspnStandings has returned.)
C19_JoinedBeforeNormalizing ==
    /\ AllOrNothing
    /\ (pc = "espn_schedules") => AllObtained("espn")

\* C19, amended: the attempt yields a payload, and rows are built, only with
\* every feed obtained; it fails when a feed exhausted its retries though
\* siblings succeeded; the ESPN standings are normalized once the standings
\* feed is obtained and before the per-team schedule feeds, which depend on
\* its result, are requested.
C19_AllOrNothing ==
    /\ AllOrNothing
    /\ (pc = "espn_schedules") =>
          /\ feeds[EspnStandingsFeed].st = "ok"
          /\ feeds[EspnStandingsFeed].doc = "enough"
          /\ \A f \in EspnScheduleFeeds : feeds[f].st \in {"pending", "ok"}
    /\ (pc = "espn_standings") => \A f \in EspnScheduleFeeds : feeds[f].st = "idle"

C19_Witness ==
    /\ "espn" \in failed
    /\ \E f \in EspnScheduleFeeds : feeds[f].st = "failed"
    /\ \E f \in EspnScheduleFeeds : feeds[f].st = "ok"
    /\ obtained = "nba"

\* the steps in which a loader finds its standings short and throws: every
\* feed it awaited is in, and yet the provider is given up
EspnShapeFailure ==
    /\ pc = "espn_standings"
    /\ pc' = "nba"
    /\ feeds'[EspnStandingsFeed].st = "ok"

NbaShapeFailure ==
    /\ pc = "nba"
    /\ pc' = "read_cache"
    /\ \A f \in NbaFeeds : feeds'[f].st = "ok"

\* C20: when a loader finds that its standings document yields fewer than N
\* teams, the provider attempt fails at once: no feed of the provider is
\* fetched again in the run, ESPN's per-team schedules are never requested,
\* no payload is built from the short list, and loadLivePayload goes on to
\* the next provider (after the last one, to main's catch block).
C20_ShapeFailureFailsAtOnce ==
    /\ [][/\ EspnShapeFailure =>
               /\ "espn" \in failed'
               /\ obtained' = "none" /\ payload' = payload
               /\ \A f \in FeedsOf("espn") : feeds'[f].st # "pending"
               /\ \A f \in EspnScheduleFeeds : feeds'[f].st = "idle"
               /\ NbaFeeds \subseteq Active(feeds')
          /\ NbaShapeFailure =>
               /\ "nba" \in failed'
               /\ obtained' = "none" /\ payload' = payload
               /\ \A f \in FeedsOf("nba") : feeds'[f].st # "pending"
               /\ error' = "shape_nba"]_vars
    /\ []((/\ "espn" \in failed
            /\ feeds[EspnStandingsFeed].st = "ok"
            /\ \A f \in EspnScheduleFeeds : feeds[f].st # "failed") =>
               \A f \in EspnScheduleFeeds : feeds[f].st = "idle")
    /\ []((error = "shape_nba") =>
               (obtained = "none" /\ \A f \in FeedsOf("nba") : feeds[f].st # "pending"))

C20_Witness ==
    /\ pc = "nba"
    /\ failed = {"espn"}
    /\ feeds[EspnStandingsFeed].st = "ok"
    /\ \A f \in EspnScheduleFeeds : feeds[f].st = "idle"
    /\ NbaFeeds \subseteq Active(feeds)

\* the pieces of a row's opponentsText that render its k-th opponent
TextOf(row, k) == SubSeq(row.opponentsText, 5 * k - 4, 5 * k - 1)

\* C21: in every row, opponents holds exactly the other tracked teams whose
\* remaining count is above zero, each once and with that count, ascending by
\* name; opponentsText is the ", "-joined "Name (count)" rendering of that
\* list in the same order; and B is in A's list with count n if and only if
\* A is in B's list with count n.
C21_OpponentsListed ==
    (rpc = "done") =>
        \A i \in 1..Len(rowsResult) :
            LET row == rowsResult[i]
                opp == row.opponents
                id  == row.teamId
            IN /\ {opp[k].opponentTeamId : k \in 1..Len(opp)} =
                      {o \in Tracked \ {id} : MapGet(counts[id], o) > 0}
               /\ \A k \in 1..Len(opp) :
                      /\ opp[k].gamesRemaining = MapGet(counts[id], opp[k].opponentTeamId)
                      /\ opp[k].opponentTeam = TeamNameOf(opp[k].opponentTeamId)
                      /\ \A l \in 1..Len(opp) :
                            (k < l) => localeCompare(opp[k].opponentTeam, opp[l].opponentTeam) < 0
               /\ Len(row.opponentsText) = IF opp = <<>> THEN 0 ELSE 5 * Len(opp) - 1
               /\ \A k \in 1..Len(opp) :
                      /\ TextOf(row, k) = <<opp[k].opponentTeam, " (",
                                            ToString(opp[k].gamesRemaining), ")">>
                      /\ (k < Len(opp)) => row.opponentsText[5 * k] = ", "
               /\ \A b \in Tracked : \A n \in 1..(2 * MaxGames) :
                      (\E k \in 1..Len(opp) :
                          opp[k].opponentTeamId = b /\ opp[k].gamesRemaining = n)
                      <=> (\E k \in 1..Len(RowOf(b).opponents) :
                              /\ RowOf(b).opponents[k].opponentTeamId = id
                              /\ RowOf(b).opponents[k].gamesRemaining = n)

\* the names of the tracked sides of a game, away before home
TrackedSides(g) ==
    (IF g.awayTeamId \in Tracked THEN <<TeamNameOf(g.awayTeamId)>> ELSE <<>>)
    \o (IF g.homeTeamId \in Tracked THEN <<TeamNameOf(g.homeTeamId)>> ELSE <<>>)

\* whether the n-th game of the list belongs under the day entry of a date
BelongsUnder(n, dateEt) ==
    LET g == scheduleGames[n]
    IN /\ g.date # NoInstant
       /\ dateKey(g.date) = dateEt
       /\ g.homeTeamId \in Tracked \/ g.awayTeamId \in Tracked

\* C22: a game is listed under a day entry of the window if and only if it
\* has a date whose Eastern calendar date is the entry's date and at least
\* one of its sides is tracked (so a game without a date is never listed);
\* it is listed there once, with its tipoff and with exactly the names of its
\* tracked sides, away before home; and each day's list is in ascending
\* order of tipoff.
C22_ListedUnderItsDay ==
    (spc = "done") =>
        \A i \in 1..Len(WindowDays) :
            LET day == WindowDays[i]
                at(n) == {k \in 1..Len(day.games) : day.games[k].gameId = n}
            IN /\ \A n \in 1..Len(scheduleGames) :
                      /\ (at(n) # {}) <=> BelongsUnder(n, day.dateEt)
                      /\ Cardinality(at(n)) <= 1
               /\ \A k \in 1..Len(day.games) :
                      /\ day.games[k].gameId \in 1..Len(scheduleGames)
                      /\ day.games[k].tipoffUtc = scheduleGames[day.games[k].gameId].date
                      /\ day.games[k].trackedTeams = TrackedSides(scheduleGames[day.games[k].gameId])
               /\ \A k \in 1..Len(day.games) : \A l \in k..Len(day.games) :
                      day.games[k].tipoffUtc <= day.games[l].tipoffUtc

C22_Witness ==
    /\ spc = "done"
    /\ builder = "buildUpcomingSchedule"
    /\ \E i \in 1..Len(WindowDays) :
          /\ Len(WindowDays[i].games) = 2
          /\ WindowDays[i].games[1].gameId = 2
          /\ Len(WindowDays[i].games[1].trackedTeams) = 2
          /\ Len(WindowDays[i].games[2].trackedTeams) = 1

\* the three ways a run ends
LiveWritten == wrote = "live" /\ exitCode = 0
CachedWritten == wrote = "cached" /\ exitCode = 0
TerminalFailure == wrote = "none" /\ exitCode # 0

\* C23: every run terminates. No feed is requested more often than its
\* ceiling (2 for an ESPN feed, 4 for an NBA feed), a started run comes to
\* its end with no fetch left in flight, and it ends in exactly one of three
\* ways: live payload written, cached payload written, or failure with a
\* non-zero exit code.
C23_RunTerminates ==
    /\ [](\A f \in Feeds : feeds[f].attempt <= IF f.prov = "espn" THEN 2 ELSE 4)
    /\ (pc \notin {"idle", "done"}) ~> (pc = "done" /\ Active(feeds) = {})
    /\ [](pc = "done" =>
            \/ LiveWritten /\ ~CachedWritten /\ ~TerminalFailure
            \/ ~LiveWritten /\ CachedWritten /\ ~TerminalFailure
            \/ ~LiveWritten /\ ~CachedWritten /\ TerminalFailure)

C23_Witness ==
    /\ pc = "done"
    /\ Active(feeds) = {}
    /\ TerminalFailure
    /\ failed = {"espn"}
    /\ obtained = "nba"
    /\ writes = 2

\* C24: the matrix holds counts only for pairs of distinct tracked teams:
\* no team has a cell for itself, no row lists its own team among its
\* opponents, and every row's total is the sum of its cells for the other
\* tracked teams.
C24_DistinctPairsOnly ==
    /\ (rpc \in {"loop", "done"}) =>
          \A t \in Tracked : DOMAIN counts[t] \subseteq Tracked \ {t}
    /\ (rpc = "done") =>
          \A i \in 1..Len(rowsResult) :
              LET row == rowsResult[i]
                  others == SelectSeq(row.opponents, LAMBDA x : x.opponentTeamId # row.teamId)
              IN /\ \A k \in 1..Len(row.opponents) :
                        row.opponents[k].opponentTeamId # row.teamId
                 /\ row.totalRemainingVsBottom12 = SumRemaining(others)

\* C25: a cached payload is written only in a run in which every provider
\* failed; a run in which a provider returned a live payload never reads the
\* snapshot and never builds or publishes a cached payload, whatever becomes
\* of the write of the live payload.
C25_CachedOnlyAfterAllFailed ==
    /\ (wrote = "cached") => AllProvidersFailed
    /\ (obtained # "none") =>
          /\ reads = 0
          /\ pc \notin {"read_cache", "write_cached"}
          /\ payload.refreshStatus.source # "cached"
          /\ wrote # "cached"

\* C26: once a provider has failed, none of its fetchJson calls is still in
\* its loop while the next provider's feeds are fetched, while the snapshot
\* is read, or while the output file is written.
C26_NoFetchOutlivesItsProvider ==
    (pc \in {"nba", "read_cache", "write_live", "write_cached"}) =>
        \A p \in failed : FeedsOf(p) \cap Active(feeds) = {}

====
